---- MODULE Spec2Model ----
(***************************************************************************)
(* Movie recommendation service: the FastAPI application of src/api.py     *)
(* (module-level catalog, rating corpus, SVD model and TF-IDF similarity   *)
(* matrix, with its request handlers) and the packaged variant of          *)
(* src/movie_recommender_project/api.py (a pickled model and a catalog).   *)
(*                                                                         *)
(* Handlers declared with "def" are run by FastAPI on a pool of worker     *)
(* threads, so the handlers that assign the module globals (rate_movie,    *)
(* retrain_model) are modelled one global read or write per step.          *)
(*                                                                         *)
(* Scores are integers: a predicted rating is the estimate clipped to the  *)
(* model's rating scale (round(est, 2) changes no integer), a similarity   *)
(* is the cosine in thousandths.  The model file joblib.dump writes is     *)
(* read at startup only and is not part of the state.                      *)
(***************************************************************************)
EXTENDS Integers, Sequences, FiniteSets, Bags, TLC

VARIABLES
    movies,      \* src/api.py: the catalog DataFrame, a sequence of rows
    cosine_sim,  \* src/api.py: the similarity matrix, or None
    ratings,     \* src/api.py: the rating corpus DataFrame, a sequence of rows
    model,       \* src/api.py: the object the global "model" refers to
    pkg_movies,  \* movie_recommender_project/api.py: its catalog
    pkg_model,   \* movie_recommender_project/api.py: its unpickled model
    pc,          \* per worker thread: the handler step it is at
    local,       \* per worker thread: the handler's local variables
    acked,       \* history: the bag of ratings whose rate_movie call returned
    started,     \* history: how many rate_movie / retrain_model calls began
    resp         \* the last response sent to a caller

vars == <<movies, cosine_sim, ratings, model, pkg_movies, pkg_model,
          pc, local, acked, started, resp>>

(***************************************************************************)
(* Bounds of the model.                                                    *)
(***************************************************************************)
MaxMovieId == 3    \* catalog identifiers are 1..MaxMovieId
MaxUserId == 2     \* users that submit ratings are 1..MaxUserId
MaxN == 2          \* the count argument n of a query is 0..MaxN
MaxRates == 2      \* rate_movie calls in one behaviour
MaxRetrains == 1   \* retrain_model calls in one behaviour

None == "None"

MovieIds == 1..MaxMovieId
UserIds == 1..MaxUserId
\* Identifiers a caller may send: one more than exists, to reach the absent case.
QueryMovieIds == 1..(MaxMovieId + 1)
QueryUserIds == 1..(MaxUserId + 1)
Counts == 0..MaxN
\* rating: float, unvalidated (RatingInput); two values, one outside 1..5.
RatingValues == {1, 6}
\* The genre labels of a tag string, as TfidfVectorizer(stop_words='english')
\* tokenises it (lower case; neither label is a stop word).
Tokens == {"action", "comedy"}
Workers == {"w1", "w2"}
\* The movies a behaviour submits ratings for: the catalog's last identifier.
RatedMovieIds == {MaxMovieId}

Min(a, b) == IF a <= b THEN a ELSE b
Max(a, b) == IF a >= b THEN a ELSE b
Range(s) == {s[i] : i \in DOMAIN s}

(***************************************************************************)
(* The catalog.  A row is [movieId, genres]; genres is the set of labels   *)
(* of the row's pipe-delimited tag string ({} is the empty string).        *)
(***************************************************************************)
MovieRow(id, g) == [movieId |-> id, genres |-> g]

\* Every movies.csv of 1..MaxMovieId rows with distinct identifiers, in any
\* row order (pd.read_csv keeps the file's order).
Catalogs ==
    UNION { { [i \in 1..k |-> MovieRow(ids[i], gs[i])] :
                ids \in {f \in [1..k -> MovieIds] :
                            \A a, b \in 1..k : a # b => f[a] # f[b]},
                gs \in [1..k -> SUBSET Tokens] } :
            k \in 1..MaxMovieId }

CatalogIds(cat) == {cat[i].movieId : i \in DOMAIN cat}

\* movies.index[movies["movieId"] == movie_id][0]
IndexOf(cat, movie_id) ==
    CHOOSE i \in DOMAIN cat :
        /\ cat[i].movieId = movie_id
        /\ \A j \in DOMAIN cat : cat[j].movieId = movie_id => i <= j

(***************************************************************************)
(* TF-IDF and cosine similarity (sklearn defaults: smooth idf, l2 norm).   *)
(* idf(t) = ln((1 + n) / (1 + df(t))) + 1, here times 10 and rounded, for  *)
(* n documents and document frequency df; IdfX10[n][df].                   *)
(***************************************************************************)
IdfX10 == << <<10>>,
             <<14, 10>>,
             <<17, 13, 10>>,
             <<19, 15, 12, 10>>,
             <<21, 17, 14, 12, 10>> >>

DocFreq(cat, t) == Cardinality({i \in DOMAIN cat : t \in cat[i].genres})

\* The squared tf-idf weight of label t (term frequency 1: a label occurs
\* once in a tag string).
Weight2(cat, t) ==
    LET w == IdfX10[Len(cat)][DocFreq(cat, t)] IN w * w

RECURSIVE SumWeight2(_, _)
SumWeight2(cat, S) ==
    IF S = {} THEN 0
    ELSE LET t == CHOOSE x \in S : TRUE
         IN Weight2(cat, t) + SumWeight2(cat, S \ {t})

\* floor(sqrt(x)), by bisection on lo..hi with lo*lo <= x < (hi+1)*(hi+1)
RECURSIVE IsqrtIn(_, _, _)
IsqrtIn(x, lo, hi) ==
    IF lo >= hi THEN lo
    ELSE LET mid == (lo + hi + 1) \div 2
         IN IF mid * mid <= x THEN IsqrtIn(x, mid, hi)
                              ELSE IsqrtIn(x, lo, mid - 1)

Isqrt(x) == IsqrtIn(x, 0, 2048)

\* Similarities are kept in thousandths.
SimScale == 1000

\* cosine_similarity of rows i and j: 0 when either vector is zero.
Cosine(cat, i, j) ==
    LET di == SumWeight2(cat, cat[i].genres)
        dj == SumWeight2(cat, cat[j].genres)
        nij == SumWeight2(cat, cat[i].genres \cap cat[j].genres)
    IN IF di = 0 \/ dj = 0 THEN 0
       ELSE (SimScale * nij) \div Isqrt(di * dj)

\* movies['genres'].str.strip().any(): some tag string is not blank
HasGenreSignal(cat) == \E i \in DOMAIN cat : cat[i].genres # {}

\* cosine_sim = None: no matrix (the empty one; a catalog's matrix has rows)
NoMatrix == <<>>

BuildCosineSim(cat) ==
    IF HasGenreSignal(cat)
    THEN [i \in DOMAIN cat |-> [j \in DOMAIN cat |-> Cosine(cat, i, j)]]
    ELSE NoMatrix

(***************************************************************************)
(* sorted(pairs, key=lambda x: x[1], reverse=True): a stable sort, so      *)
(* pairs of equal key keep their input order.  A pair is <<id, key>>.      *)
(***************************************************************************)
\* A mutant of InsertDesc: a sort that puts a pair before its equals
RECURSIVE InsertDescUnstable(_, _)
InsertDescUnstable(x, s) ==
    IF s = <<>> THEN <<x>>
    ELSE IF Head(s)[2] > x[2] THEN <<Head(s)>> \o InsertDescUnstable(x, Tail(s))
         ELSE <<x>> \o s

RECURSIVE InsertDesc(_, _)
InsertDesc(x, s) ==
    IF s = <<>> THEN <<x>>
    ELSE IF Head(s)[2] >= x[2] THEN <<Head(s)>> \o InsertDesc(x, Tail(s))
         ELSE <<x>> \o s

RECURSIVE SortedDesc(_)
SortedDesc(s) ==
    IF s = <<>> THEN <<>>
    ELSE InsertDesc(s[Len(s)], SortedDesc(SubSeq(s, 1, Len(s) - 1)))

\* s[a:b] of Python for 0 <= a <= b
Slice(s, a, b) == SubSeq(s, a + 1, Min(b, Len(s)))

(***************************************************************************)
(* Responses.  An HTTPException(status_code, detail) is an error response. *)
(***************************************************************************)
Ok(op, args, body) ==
    [op |-> op, args |-> args, status |-> 200, exc |-> None,
     detail |-> "", body |-> body]

HTTPException(op, args, code, detail) ==
    [op |-> op, args |-> args, status |-> code, exc |-> "HTTPException",
     detail |-> detail, body |-> <<>>]

NoResp == [op |-> None, args |-> <<>>, status |-> 0, exc |-> None,
           detail |-> "", body |-> <<>>]

\* Line 121 and line 123: the two errors get_similar_movies raises
SimilarityUnavailable(op, args) ==
    HTTPException(op, args, 404, "Genre similarity data not available")
MovieNotFound(op, args) == HTTPException(op, args, 404, "Movie not found")

\* What a caller can tell an error by, other than its message text
ErrorKind(r) == <<r.exc, r.status>>

\* A mutant of SimSlice: [1:n]
SimSliceShort(sorted, n) == Slice(sorted, 1, n)

\* [1:n + 1] of the sorted scores: drops the first pair
SimSlice(sorted, n) == Slice(sorted, 1, n + 1)

\* get_similar_movies: the movieId of each returned row, in order
get_similar_movies(movie_id, n) ==
    IF cosine_sim = NoMatrix
    THEN SimilarityUnavailable("similar", <<movie_id, n>>)
    ELSE IF movie_id \notin CatalogIds(movies)
    THEN MovieNotFound("similar", <<movie_id, n>>)
    ELSE LET idx == IndexOf(movies, movie_id)
             sim_scores == [j \in DOMAIN movies |-> <<j, cosine_sim[idx][j]>>]
             top == SimSlice(SortedDesc(sim_scores), n)
         IN Ok("similar", <<movie_id, n>>,
               [k \in DOMAIN top |-> movies[top[k][1]].movieId])

(***************************************************************************)
(* The rating corpus and the SVD model.  A rating row is                   *)
(* [userId, movieId, rating].  A fitted model holds the rating scale it    *)
(* clips to, the rows it was fitted on and, for each item, the estimate    *)
(* its learned biases and factors give before clipping (the factors are    *)
(* randomly initialised, so a fit may end with any estimates).             *)
(***************************************************************************)
RatingRow(u, m, r) == [userId |-> u, movieId |-> m, rating |-> r]

\* Estimates before clipping: one inside every scale, one above.
RawScores == {2, 7}
RawTables == [MovieIds -> RawScores]

\* SVD(): a model object that has not been fitted
Unfitted ==
    [fitted |-> FALSE, lo |-> 0, hi |-> 0, trainset |-> <<>>,
     raw |-> [m \in MovieIds |-> 0]]

\* model.fit(trainset), the trainset carrying the Reader's rating_scale
Fitted(lo, hi, trainset, raw) ==
    [fitted |-> TRUE, lo |-> lo, hi |-> hi, trainset |-> trainset, raw |-> raw]

\* model.predict(uid, iid).est: the estimate clipped to the rating scale
predict(mdl, uid, iid) == Min(mdl.hi, Max(mdl.lo, mdl.raw[iid]))

\* ratings.rating.min() and ratings.rating.max()
RatingMin(frame) ==
    CHOOSE r \in {frame[i].rating : i \in DOMAIN frame} :
        \A i \in DOMAIN frame : r <= frame[i].rating
RatingMax(frame) ==
    CHOOSE r \in {frame[i].rating : i \in DOMAIN frame} :
        \A i \in DOMAIN frame : r >= frame[i].rating

\* train_test_split(data, test_size=0.2): the test rows are ceil(0.2 * n) of
\* the n rows, picked by a shuffle; the index sets it may pick.
TestSize(n) == (n + 4) \div 5
TestChoices(frame) ==
    {T \in SUBSET (DOMAIN frame) : Cardinality(T) = TestSize(Len(frame))}

RECURSIVE Without(_, _)
Without(frame, T) ==
    IF frame = <<>> THEN <<>>
    ELSE LET rest == Without(SubSeq(frame, 1, Len(frame) - 1), T)
         IN IF Len(frame) \in T THEN rest
            ELSE Append(rest, frame[Len(frame)])

\* The rows of the trainset, given the test rows' indices
TrainRows(frame, T) == Without(frame, T)

RatedBy(frame, user_id) ==
    {frame[i].movieId : i \in {j \in DOMAIN frame : frame[j].userId = user_id}}

UsersOf(frame) == {frame[i].userId : i \in DOMAIN frame}
ItemsOf(frame) == {frame[i].movieId : i \in DOMAIN frame}

SelectRows(cat, keep) == SelectSeq(cat, LAMBDA row : row.movieId \in keep)

\* An exception that is no HTTPException: FastAPI answers 500.
ServerError(op, args, exc) ==
    [op |-> op, args |-> args, status |-> 500, exc |-> exc,
     detail |-> "Internal Server Error", body |-> <<>>]

\* [:n] of the sorted predictions
TopSlice(sorted, n) == Slice(sorted, 0, n)

\* The rows get_top_n_recommendations returns: movies[movies.movieId.isin(top)]
\* iterated in catalog order, each with the score dict(top_n) holds for it.
TopRows(cat, top_n) ==
    LET top_movies == SelectRows(cat, {top_n[k][1] : k \in DOMAIN top_n})
        score(id) == (CHOOSE k \in DOMAIN top_n : top_n[k][1] = id)
    IN [k \in DOMAIN top_movies |->
            [movieId |-> top_movies[k].movieId,
             predicted_rating |-> top_n[score(top_movies[k].movieId)][2]]]

\* Line 94: the error get_top_n_recommendations raises
UserNotFound(op, args) == HTTPException(op, args, 404, "User ID not found")

\* Whether user_id passes the lookup of line 93
UserKnown(frame, user_id) == user_id \in UsersOf(frame)

\* The candidates of get_top_n_recommendations: the rows the user has not rated
Unrated(cat, frame, user_id) ==
    SelectRows(cat, CatalogIds(cat) \ RatedBy(frame, user_id))

get_top_n_recommendations(user_id, n) ==
    IF ~UserKnown(ratings, user_id)
    THEN UserNotFound("recommend", <<user_id, n>>)
    ELSE IF ~model.fitted
    THEN ServerError("recommend", <<user_id, n>>, "AttributeError")
    ELSE LET unrated_movies == Unrated(movies, ratings, user_id)
             predictions ==
                 [k \in DOMAIN unrated_movies |->
                     <<unrated_movies[k].movieId,
                       predict(model, user_id, unrated_movies[k].movieId)>>]
             top_n == TopSlice(SortedDesc(predictions), n)
         IN Ok("recommend", <<user_id, n>>, TopRows(movies, top_n))

\* movie_recommender_project/api.py recommend: every catalog movie is a
\* candidate; one title per top movie, in the order of the sorted predictions
\* (a title stands for its movie_id).
recommend(user_id, n) ==
    LET all_movies == pkg_movies
        predictions ==
            [k \in DOMAIN all_movies |->
                <<all_movies[k].movieId,
                  predict(pkg_model, user_id, all_movies[k].movieId)>>]
        top_movies == TopSlice(SortedDesc(predictions), n)
    IN Ok("pkg_recommend", <<user_id, n>>,
          [k \in DOMAIN top_movies |->
              [movieId |-> top_movies[k][1],
               predicted_rating |-> top_movies[k][2]]])

(***************************************************************************)
(* The lookups of src/api.py.  A mean is kept in hundredths, as round(x, 2)*)
(* leaves it; an optional value is a sequence of length 0 or 1.            *)
(***************************************************************************)
\* ratings.loc[ratings["movieId"] == movie_id] and ratings[ratings["userId"] == user_id]
RatingsOfMovie(frame, movie_id) ==
    SelectSeq(frame, LAMBDA row : row.movieId = movie_id)
RatingsOfUser(frame, user_id) ==
    SelectSeq(frame, LAMBDA row : row.userId = user_id)

RECURSIVE SumRatings(_)
SumRatings(rows) ==
    IF rows = <<>> THEN 0 ELSE rows[1].rating + SumRatings(Tail(rows))

\* round(rows.rating.mean(), 2) of a frame with at least one row, times 100
MeanX100(rows) == (200 * SumRatings(rows) + Len(rows)) \div (2 * Len(rows))

\* The title column: the titles of rows 1 and 2 differ in case only
TitleOf(movie_id) ==
    IF movie_id = 1 THEN "Alien"
    ELSE IF movie_id = 2 THEN "ALIEN"
    ELSE IF movie_id = 3 THEN "Brazil"
    ELSE "Casino"

\* str.lower()
Lower(title) ==
    IF title \in {"Alien", "ALIEN", "alien"} THEN "alien"
    ELSE IF title \in {"Brazil", "BRAZIL", "brazil"} THEN "brazil"
    ELSE IF title \in {"Casino", "casino"} THEN "casino"
    ELSE title

\* The titles a caller asks for
QueryTitles == {"alien", "BRAZIL", "zulu"}

\* Lines 152-153: the records of the catalog, in row order
get_all_movies == Ok("get_all_movies", <<>>, movies)

\* Lines 158-170: the row of movie_id and the mean of its ratings, or None
get_movie(movie_id) ==
    IF movie_id \notin CatalogIds(movies)
    THEN MovieNotFound("get_movie", <<movie_id>>)
    ELSE LET movie_ratings == RatingsOfMovie(ratings, movie_id)
             avg_rating == IF movie_ratings # <<>>
                           THEN <<MeanX100(movie_ratings)>> ELSE <<>>
         IN Ok("get_movie", <<movie_id>>,
               <<[movieId |-> movie_id, average_rating |-> avg_rating]>>)

\* Lines 176-187: the first row whose lower-cased title is the lower-cased
\* argument; the mean of no ratings is NaN, which is not None, is rounded to
\* NaN and cannot be encoded as JSON.
get_movie_by_title(title) ==
    LET movie == SelectSeq(movies,
                     LAMBDA row : Lower(TitleOf(row.movieId)) = Lower(title))
    IN IF movie = <<>>
       THEN MovieNotFound("get_movie_by_title", <<title>>)
       ELSE LET rows == RatingsOfMovie(ratings, movie[1].movieId)
            IN IF rows = <<>>
               THEN ServerError("get_movie_by_title", <<title>>, "ValueError")
               ELSE Ok("get_movie_by_title", <<title>>,
                       <<[movieId |-> movie[1].movieId,
                          average_rating |-> <<MeanX100(rows)>>]>>)

\* Lines 215-226: the user's ratings joined with the catalog, and their mean
get_user(user_id) ==
    LET user_ratings == RatingsOfUser(ratings, user_id)
    IN IF user_ratings = <<>>
       THEN HTTPException("get_user", <<user_id>>, 404, "User not found")
       ELSE LET rated_movies ==
                    SelectSeq(user_ratings,
                        LAMBDA row : row.movieId \in CatalogIds(movies))
            IN Ok("get_user", <<user_id>>,
                  <<[userId |-> user_id,
                     average_rating |-> MeanX100(user_ratings),
                     rated_movies |->
                         [k \in DOMAIN rated_movies |->
                             <<rated_movies[k].movieId, rated_movies[k].rating>>]]>>)

\* Line 231: ratings.groupby("movieId")["rating"].mean()
AvgRatings(frame) ==
    [m \in {frame[i].movieId : i \in DOMAIN frame} |->
        MeanX100(RatingsOfMovie(frame, m))]

\* Line 232: sort_values("rating", ascending=False), a sort that is not
\* stable: every order of the groups in which no mean is followed by a
\* larger one.
SortValuesDesc(avg) ==
    {s \in [1..Cardinality(DOMAIN avg) -> DOMAIN avg] :
        /\ \A k, l \in DOMAIN s : k # l => s[k] # s[l]
        /\ \A k, l \in DOMAIN s : k < l => avg[s[k]] >= avg[s[l]]}

\* Lines 232-236: head(n) of one such order, joined with the catalog
top_rated_from(order, n) ==
    LET avg == AvgRatings(ratings)
        top_movies == SelectSeq(Slice(order, 0, n),
                          LAMBDA m : m \in CatalogIds(movies))
    IN Ok("top_rated", <<n>>,
          [k \in DOMAIN top_movies |-> <<top_movies[k], avg[top_movies[k]]>>])

(***************************************************************************)
(* POST /rate/ of movie_recommender_project/api.py.  The request body is a *)
(* JSON object, so the keys of its "ratings" object are strings; the       *)
(* movie_id column of the catalog holds integers.                          *)
(***************************************************************************)
\* A Python value: the int i, and the str of the decimal digits of i
PyInt(i) == [type |-> "int", val |-> i]
PyStr(i) == [type |-> "str", val |-> i]

\* The rating a transient user gives a movie (the values are read by the
\* temporary dataset only)
TransientValues == {5}

\* The "ratings" objects of a request: string keys, one per rated movie
TransientRatings ==
    UNION {[{PyStr(m) : m \in S} -> TransientValues] :
              S \in (SUBSET MovieIds) \ {{}}}

\* key in d, for a dict d: a key equal to it, of the same type
PyIn(key, d) == key \in DOMAIN d

\* Lines 63-66: the rows of the temporary dataset (str(user_id), str(mid), r)
TempData(user_id, user_ratings) ==
    {<<PyStr(user_id), key, user_ratings[key]>> : key \in DOMAIN user_ratings}

\* Lines 70-79: the predictions of the global model for the movies that pass
\* the test of line 73, sorted, cut to top_n, one title each (a title stands
\* for its movie_id)
rate_movies(user_id, user_ratings, top_n) ==
    LET trainset == TempData(user_id, user_ratings)
        all_movies == SelectSeq(pkg_movies,
                          LAMBDA row : ~PyIn(PyInt(row.movieId), user_ratings))
        predictions ==
            [k \in DOMAIN all_movies |->
                <<all_movies[k].movieId,
                  predict(pkg_model, user_id, all_movies[k].movieId)>>]
        top_movies == TopSlice(SortedDesc(predictions), top_n)
    IN Ok("pkg_rate", <<user_id, user_ratings, top_n>>,
          [k \in DOMAIN top_movies |->
              [movieId |-> top_movies[k][1],
               predicted_rating |-> top_movies[k][2]]])

(***************************************************************************)
(* Initial states.                                                         *)
(***************************************************************************)
\* data/ratings.csv as loaded at startup
InitRatings == << RatingRow(1, 1, 4), RatingRow(2, 2, 4) >>

\* data/movies.csv of the service specification: identifiers in row order
MainCatalog ==
    [i \in 1..MaxMovieId |->
        MovieRow(i, IF i % 2 = 1 THEN {"action"} ELSE {"action", "comedy"})]

\* Line 71: the rating scale, Reader(rating_scale=(1, 5))
RatingScaleLo == 1
RatingScaleHi == 5

\* Lines 71-75: Reader(rating_scale=(1, 5)), a split, SVD().fit(trainset)
StartupModels(frame) ==
    {Fitted(RatingScaleLo, RatingScaleHi, TrainRows(frame, T), raw) :
        T \in TestChoices(frame), raw \in RawTables}

\* model.pkl of the packaged variant: a model fitted on a rating corpus
PickledModels == {Fitted(1, 5, InitRatings, raw) : raw \in RawTables}
PickledModel ==
    Fitted(1, 5, InitRatings, [m \in MovieIds |-> IF m % 2 = 0 THEN 7 ELSE 2])

\* The locals of a handler's thread; called is the corpus as it was when
\* retrain_model was entered
NoLocal ==
    [lo |-> 0, hi |-> 0, frame |-> <<>>, data |-> <<>>, row |-> <<>>,
     called |-> <<>>]

InitWith(cat, models, pkgcat, pkgmodels) ==
    /\ movies = cat
    /\ cosine_sim = BuildCosineSim(cat)
    /\ ratings = InitRatings
    /\ model \in models
    /\ pkg_movies = pkgcat
    /\ pkg_model \in pkgmodels
    /\ pc = [w \in Workers |-> "idle"]
    /\ local = [w \in Workers |-> NoLocal]
    /\ acked = EmptyBag
    /\ started = [rate |-> 0, retrain |-> 0]
    /\ resp = NoResp

Init ==
    InitWith(MainCatalog, StartupModels(InitRatings), MainCatalog, {PickledModel})

\* The service with every route: the model loaded from model.pkl (line 69)
InitOps ==
    InitWith(MainCatalog, {PickledModel}, MainCatalog, {PickledModel})

\* The packaged variant with the catalog in identifier order and any
\* pickled model
InitEph ==
    InitWith(MainCatalog, {PickledModel}, MainCatalog, PickledModels)

\* Any catalog, for the similarity queries
InitSim ==
    \E cat \in Catalogs :
        InitWith(cat, {PickledModel}, MainCatalog, {PickledModel})

\* The packaged variant, with any catalog and any pickled model
InitPkg ==
    \E cat \in Catalogs :
        InitWith(MainCatalog, {PickledModel}, cat, PickledModels)

(***************************************************************************)
(* Handlers.                                                               *)
(***************************************************************************)
Data == <<movies, cosine_sim, ratings, model, pkg_movies, pkg_model>>
Threads == <<pc, local, acked, started>>

\* GET /similar/{movie_id}
Similar(movie_id, n) ==
    /\ resp' = get_similar_movies(movie_id, n)
    /\ UNCHANGED <<Data, Threads>>

\* GET /recommend/{user_id} of src/api.py
Recommend(user_id, n) ==
    /\ resp' = get_top_n_recommendations(user_id, n)
    /\ UNCHANGED <<Data, Threads>>

\* GET /recommend/{user_id} of movie_recommender_project/api.py
PkgRecommend(user_id, n) ==
    /\ resp' = recommend(user_id, n)
    /\ UNCHANGED <<Data, Threads>>

\* POST /rate/ as it would be if it fitted the shared model on the temporary
\* trainset
PkgRateMoviesFits(user_id, user_ratings, top_n) ==
    /\ resp' = rate_movies(user_id, user_ratings, top_n)
    /\ LET ids == SelectSeq([m \in 1..MaxMovieId |-> m],
                      LAMBDA m : PyStr(m) \in DOMAIN user_ratings)
       IN pkg_model' =
              [pkg_model EXCEPT
                  !.trainset = [k \in DOMAIN ids |->
                      RatingRow(user_id, ids[k], user_ratings[PyStr(ids[k])])]]
    /\ UNCHANGED <<movies, cosine_sim, ratings, model, pkg_movies, Threads>>

\* POST /rate/ of movie_recommender_project/api.py: the temporary trainset
\* is a local of the call; the global model is read, not fitted
PkgRateMovies(user_id, user_ratings, top_n) ==
    /\ resp' = rate_movies(user_id, user_ratings, top_n)
    /\ UNCHANGED <<Data, Threads>>

\* GET /model-info: model.test(testset) on the global model
ModelInfo ==
    /\ resp' = IF model.fitted
               THEN Ok("model_info", <<>>, <<Len(ratings)>>)
               ELSE ServerError("model_info", <<>>, "AttributeError")
    /\ UNCHANGED <<Data, Threads>>

\* GET /movies/all
GetAllMovies ==
    /\ resp' = get_all_movies
    /\ UNCHANGED <<Data, Threads>>

\* GET /movies/{movie_id}
GetMovie(movie_id) ==
    /\ resp' = get_movie(movie_id)
    /\ UNCHANGED <<Data, Threads>>

\* GET /movies/title/{title}
GetMovieByTitle(title) ==
    /\ resp' = get_movie_by_title(title)
    /\ UNCHANGED <<Data, Threads>>

\* GET /users/{user_id}
GetUser(user_id) ==
    /\ resp' = get_user(user_id)
    /\ UNCHANGED <<Data, Threads>>

\* GET /top-rated
TopRated(n) ==
    /\ \E order \in SortValuesDesc(AvgRatings(ratings)) :
          resp' = top_rated_from(order, n)
    /\ UNCHANGED <<Data, Threads>>

\* POST /rate-movie/, lines 204-209: new_row, and pd.concat([ratings, new_row])
\* evaluated on the frame the global refers to now
RateConcat(w, u, m, r) ==
    /\ pc[w] = "idle"
    /\ started.rate < MaxRates
    /\ started' = [started EXCEPT !.rate = @ + 1]
    /\ local' = [local EXCEPT ![w] =
                    [NoLocal EXCEPT !.row = RatingRow(u, m, r),
                                    !.frame = Append(ratings, RatingRow(u, m, r))]]
    /\ pc' = [pc EXCEPT ![w] = "rate_store"]
    /\ UNCHANGED <<Data, acked, resp>>

\* The frame rate_movie assigns to the global
StoredFrame(w) == local[w].frame

\* A rate_movie that also fits the model on the frame it stores
RateStoreRefits(w) ==
    /\ pc[w] = "rate_store"
    /\ ratings' = StoredFrame(w)
    /\ model' = Fitted(RatingMin(StoredFrame(w)), RatingMax(StoredFrame(w)),
                       StoredFrame(w), model.raw)
    /\ acked' = acked (+) SetToBag({local[w].row})
    /\ resp' = Ok("rate_movie", <<>>, <<>>)
    /\ pc' = [pc EXCEPT ![w] = "idle"]
    /\ local' = [local EXCEPT ![w] = NoLocal]
    /\ UNCHANGED <<movies, cosine_sim, pkg_movies, pkg_model, started>>

\* Line 209-210: the assignment to the global, and the return
RateStore(w) ==
    /\ pc[w] = "rate_store"
    /\ ratings' = StoredFrame(w)
    /\ acked' = acked (+) SetToBag({local[w].row})
    /\ resp' = Ok("rate_movie", <<>>, <<>>)
    /\ pc' = [pc EXCEPT ![w] = "idle"]
    /\ local' = [local EXCEPT ![w] = NoLocal]
    /\ UNCHANGED <<movies, cosine_sim, model, pkg_movies, pkg_model, started>>

\* POST /retrain, line 260: ratings.rating.min()
RetrainMin(w) ==
    /\ pc[w] = "idle"
    /\ started.retrain < MaxRetrains
    /\ started' = [started EXCEPT !.retrain = @ + 1]
    /\ local' = [local EXCEPT ![w] = [NoLocal EXCEPT !.lo = RatingMin(ratings),
                                                     !.called = ratings]]
    /\ pc' = [pc EXCEPT ![w] = "rt_max"]
    /\ UNCHANGED <<Data, acked, resp>>

\* Line 260: ratings.rating.max(), a second read of the global
RetrainMax(w) ==
    /\ pc[w] = "rt_max"
    /\ local' = [local EXCEPT ![w].hi = RatingMax(ratings)]
    /\ pc' = [pc EXCEPT ![w] = "rt_data"]
    /\ UNCHANGED <<Data, acked, started, resp>>

\* The frame line 261 loads the training data from
DataFrame(w) == ratings

\* Lines 261-262: Dataset.load_from_df(ratings[...]), a third read of the
\* global, and the split
RetrainData(w) ==
    /\ pc[w] = "rt_data"
    /\ \E T \in TestChoices(DataFrame(w)) :
          local' = [local EXCEPT ![w].frame = TrainRows(DataFrame(w), T),
                                 ![w].data = DataFrame(w)]
    /\ pc' = [pc EXCEPT ![w] = "rt_new"]
    /\ UNCHANGED <<Data, acked, started, resp>>

\* The object line 263 assigns to the global
NewModel == Unfitted

\* Line 263: model = SVD()
RetrainNew(w) ==
    /\ pc[w] = "rt_new"
    /\ model' = NewModel
    /\ pc' = [pc EXCEPT ![w] = "rt_fit"]
    /\ UNCHANGED <<movies, cosine_sim, ratings, pkg_movies, pkg_model,
                   local, acked, started, resp>>

\* Line 264: model.fit(trainset), on the object the global refers to
RetrainFit(w) ==
    /\ pc[w] = "rt_fit"
    /\ \E raw \in RawTables :
          model' = Fitted(local[w].lo, local[w].hi, local[w].frame, raw)
    /\ pc' = [pc EXCEPT ![w] = "rt_test"]
    /\ UNCHANGED <<movies, cosine_sim, ratings, pkg_movies, pkg_model,
                   local, acked, started, resp>>

\* Lines 265-274: model.test(testset), the metrics, joblib.dump, the return
RetrainReturn(w) ==
    /\ pc[w] = "rt_test"
    /\ resp' = IF model.fitted
               THEN Ok("retrain", <<>>, <<>>)
               ELSE ServerError("retrain", <<>>, "AttributeError")
    /\ pc' = [pc EXCEPT ![w] = "idle"]
    /\ local' = [local EXCEPT ![w] = NoLocal]
    /\ UNCHANGED <<Data, acked, started>>

Next ==
    \/ \E u \in QueryUserIds, n \in Counts : Recommend(u, n)
    \/ ModelInfo
    \/ \E w \in Workers, u \in UserIds, m \in RatedMovieIds, r \in RatingValues :
          RateConcat(w, u, m, r)
    \/ \E w \in Workers : RateStore(w)
    \/ \E w \in Workers : RetrainMin(w)
    \/ \E w \in Workers : RetrainMax(w)
    \/ \E w \in Workers : RetrainData(w)
    \/ \E w \in Workers : RetrainNew(w)
    \/ \E w \in Workers : RetrainFit(w)
    \/ \E w \in Workers : RetrainReturn(w)

Spec == Init /\ [][Next]_vars

\* Every route of src/api.py, one request at a time: the steps of rate_movie
\* and retrain_model are those of one thread.
OneWorker == {"w1"}

NextOps ==
    \/ \E u \in QueryUserIds, n \in Counts : Recommend(u, n)
    \/ ModelInfo
    \/ \E w \in OneWorker, u \in UserIds, m \in RatedMovieIds, r \in RatingValues :
          RateConcat(w, u, m, r)
    \/ \E w \in OneWorker : RateStore(w)
    \/ \E w \in OneWorker : RetrainMin(w)
    \/ \E w \in OneWorker : RetrainMax(w)
    \/ \E w \in OneWorker : RetrainData(w)
    \/ \E w \in OneWorker : RetrainNew(w)
    \/ \E w \in OneWorker : RetrainFit(w)
    \/ \E w \in OneWorker : RetrainReturn(w)
    \/ \E m \in QueryMovieIds, n \in Counts : Similar(m, n)
    \/ GetAllMovies
    \/ \E m \in QueryMovieIds : GetMovie(m)
    \/ \E t \in QueryTitles : GetMovieByTitle(t)
    \/ \E u \in QueryUserIds : GetUser(u)
    \/ \E n \in Counts : TopRated(n)

SpecOps == InitOps /\ [][NextOps]_vars

NextEph ==
    \E u \in QueryUserIds, d \in TransientRatings, n \in Counts :
        PkgRateMovies(u, d, n)

SpecEph == InitEph /\ [][NextEph]_vars

NextSim == \E m \in QueryMovieIds, n \in Counts : Similar(m, n)

SpecSim == InitSim /\ [][NextSim]_vars

NextPkg == \E u \in QueryUserIds, n \in Counts : PkgRecommend(u, n)

SpecPkg == InitPkg /\ [][NextPkg]_vars

(***************************************************************************)
(* Properties of the similarity queries (SpecSim).                         *)
(***************************************************************************)
SimilarReturned == resp.op = "similar" /\ resp.status = 200

\* The similarity of catalog item b to catalog item a
SimTo(a, b) == cosine_sim[IndexOf(movies, a)][IndexOf(movies, b)]

\* C3: similar(i, k) never contains i itself, also when another item has
\* i's tag string or when i's tag string is empty.
C3_SimilarExcludesSelf ==
    SimilarReturned =>
        \A k \in DOMAIN resp.body : resp.body[k] # resp.args[1]

\* C4, as stated: the items similar(i, k) returns are in non-increasing
\* order of similarity to i, and items of equal similarity are in ascending
\* order of identifier, whatever the row order of the catalog.
C4_TiesByAscendingId ==
    SimilarReturned =>
        \A k, l \in DOMAIN resp.body :
            k < l =>
                /\ SimTo(resp.args[1], resp.body[k]) >= SimTo(resp.args[1], resp.body[l])
                /\ SimTo(resp.args[1], resp.body[k]) = SimTo(resp.args[1], resp.body[l])
                      => resp.body[k] < resp.body[l]

\* C4, amended: the items similar(i, k) returns are in non-increasing order
\* of similarity to i, and items of equal similarity are in the order of
\* their rows in the catalog.
C4_TiesByCatalogOrder ==
    SimilarReturned =>
        \A k, l \in DOMAIN resp.body :
            k < l =>
                /\ SimTo(resp.args[1], resp.body[k]) >= SimTo(resp.args[1], resp.body[l])
                /\ SimTo(resp.args[1], resp.body[k]) = SimTo(resp.args[1], resp.body[l])
                      => IndexOf(movies, resp.body[k]) < IndexOf(movies, resp.body[l])

\* A query answered with two items of equal similarity, the first of them
\* with the larger identifier and the earlier catalog row.
C4_Witness ==
    /\ SimilarReturned
    /\ \E k, l \in DOMAIN resp.body :
          /\ k < l
          /\ SimTo(resp.args[1], resp.body[k]) = SimTo(resp.args[1], resp.body[l])
          /\ resp.body[k] > resp.body[l]
          /\ IndexOf(movies, resp.body[k]) < IndexOf(movies, resp.body[l])

\* C5, as stated: for every catalog item i and every k >= 0, similar(i, k)
\* returns exactly min(k, |catalog| - 1) items and raises no error.
C5_ExactCount ==
    (resp.op = "similar" /\ resp.args[1] \in CatalogIds(movies)) =>
        /\ resp.status = 200
        /\ Len(resp.body) = Min(resp.args[2], Len(movies) - 1)

\* C5, amended: when some item's tag string is not empty, for every catalog
\* item i and every k >= 0, similar(i, k) returns exactly
\* min(k, |catalog| - 1) items and raises no error.
C5_ExactCountWhenAvailable ==
    (/\ resp.op = "similar"
     /\ resp.args[1] \in CatalogIds(movies)
     /\ HasGenreSignal(movies)) =>
        /\ resp.status = 200
        /\ Len(resp.body) = Min(resp.args[2], Len(movies) - 1)

\* A query for more items than the catalog has others: all of them returned.
C5_Witness ==
    /\ SimilarReturned
    /\ resp.args[2] > Len(movies) - 1
    /\ Len(movies) > 1
    /\ Len(resp.body) = Len(movies) - 1

\* C6: similar fails with a not-found error exactly when the item is absent
\* (and the catalog has a tag signal), with an unavailable error exactly when
\* every tag string is empty, and the caller can tell the two by their kind.
C6_DistinctErrorKinds ==
    resp.op = "similar" =>
        LET absent == resp.args[1] \notin CatalogIds(movies)
            nosignal == ~HasGenreSignal(movies)
        IN /\ (resp.status # 200) <=> (absent \/ nosignal)
           /\ resp.status # 200 =>
                /\ (ErrorKind(resp) = ErrorKind(SimilarityUnavailable(resp.op, resp.args)))
                      <=> nosignal
                /\ (ErrorKind(resp) = ErrorKind(MovieNotFound(resp.op, resp.args)))
                      <=> (absent /\ ~nosignal)

(***************************************************************************)
(* Properties of the recommendation queries (Spec, SpecPkg).               *)
(***************************************************************************)
\* The rating corpus a recommend entry point has: the ratings frame of
\* src/api.py; for the packaged variant, the ratings its model was fitted on.
CorpusOf(op) == IF op = "recommend" THEN ratings ELSE pkg_model.trainset
ModelOf(op) == IF op = "recommend" THEN model ELSE pkg_model

IsRecommend == resp.op \in {"recommend", "pkg_recommend"}

\* C1: for a user with at least one rating, recommend(u, n) returns at most n
\* items, none of them one the user has a rating for in the current corpus.
C1_RecommendExcludesRated ==
    (/\ IsRecommend
     /\ UserKnown(CorpusOf(resp.op), resp.args[1])
     /\ resp.status = 200) =>
        /\ Len(resp.body) <= resp.args[2]
        /\ \A k \in DOMAIN resp.body :
              resp.body[k].movieId \notin RatedBy(CorpusOf(resp.op), resp.args[1])

\* a is ranked before b: a higher score, or the same score and a lower id
RankedBefore(a, b) ==
    \/ a.predicted_rating > b.predicted_rating
    \/ a.predicted_rating = b.predicted_rating /\ a.movieId < b.movieId

\* The candidates of a recommend query with their scores
Candidates(op, user_id) ==
    {[movieId |-> id, predicted_rating |-> predict(ModelOf(op), user_id, id)] :
        id \in IF op = "recommend"
               THEN CatalogIds(movies) \ RatedBy(ratings, user_id)
               ELSE CatalogIds(pkg_movies)}

\* C2: the list recommend(u, n) returns is the first n of the candidates
\* sorted by score descending, equal scores by ascending item identifier.
C2_OrderedByScoreThenId ==
    (resp.op = "recommend" /\ resp.status = 200) =>
        LET cands == Candidates(resp.op, resp.args[1])
        IN /\ Len(resp.body) = Min(resp.args[2], Cardinality(cands))
           /\ Range(resp.body) \subseteq cands
           /\ \A k, l \in DOMAIN resp.body :
                 k < l => RankedBefore(resp.body[k], resp.body[l])
           /\ \A c \in cands \ Range(resp.body) :
                 \A k \in DOMAIN resp.body : RankedBefore(resp.body[k], c)

\* C7: recommend(u, n) fails with the unknown-user error if and only if u has
\* no rating in the current corpus, in every recommend entry point.
C7_UnknownUserIffNoRatings ==
    IsRecommend =>
        (ErrorKind(resp) = ErrorKind(UserNotFound(resp.op, resp.args)))
            <=> ~UserKnown(CorpusOf(resp.op), resp.args[1])

(***************************************************************************)
(* Properties of the concurrent handlers (Spec).                           *)
(***************************************************************************)
\* C8: the shared model reference never points at an untrained or partially
\* trained model, so a reader sees the previous or the new trained model.
C8_ModelAlwaysTrained == model.fitted

SeqToBag(s) == [x \in Range(s) |-> Cardinality({i \in DOMAIN s : s[i] = x})]

\* C9: once every rate_movie call has returned, the corpus holds the rows
\* recorded before and one row for each submitted rating.
C9_NoLostRating ==
    (\A w \in Workers : pc[w] # "rate_store") =>
        SeqToBag(ratings) = SeqToBag(InitRatings) (+) acked

\* C10: the scale bounds and the training data of one retrain are derived
\* from the same state of the corpus.
C10_ConsistentSnapshot ==
    \A w \in Workers :
        pc[w] \in {"rt_new", "rt_fit", "rt_test"} =>
            /\ local[w].lo = RatingMin(local[w].data)
            /\ local[w].hi = RatingMax(local[w].data)


(***************************************************************************)
(* Frame conditions of the routes (SpecOps).                               *)
(***************************************************************************)
QueryOps ==
    {"recommend", "similar", "get_movie", "get_movie_by_title",
     "get_all_movies", "get_user", "top_rated", "model_info"}

\* A step in which a query is answered: no thread of rate_movie or
\* retrain_model moves
QueryStep == pc' = pc /\ resp'.op \in QueryOps

\* A step of rate_movie, and a step of retrain_model
RateStep ==
    \E w \in Workers : pc'[w] # pc[w] /\ "rate_store" \in {pc[w], pc'[w]}
RetrainStep ==
    \E w \in Workers :
        /\ pc'[w] # pc[w]
        /\ {pc[w], pc'[w]} \cap {"rt_max", "rt_data", "rt_new", "rt_fit", "rt_test"} # {}

\* C11: a query leaves the rating corpus, the trained model, the catalog and
\* the similarity index unchanged; rate-movie changes nothing but the rating
\* corpus; the trained model changes in steps of retrain only; no step
\* changes the catalog or the similarity index.
C11_FrameConditions ==
    [][/\ movies' = movies
       /\ cosine_sim' = cosine_sim
       /\ QueryStep => (ratings' = ratings /\ model' = model)
       /\ RateStep => model' = model
       /\ model' # model => RetrainStep]_vars

\* A query answered after a rating was stored and a retrain replaced the
\* model.
C11_Witness ==
    /\ resp.op = "top_rated"
    /\ resp.status = 200
    /\ Len(resp.body) > 0
    /\ Len(ratings) > Len(InitRatings)
    /\ started.retrain > 0
    /\ \A w \in Workers : pc[w] = "idle"
    /\ model.fitted
    /\ model # PickledModel


(***************************************************************************)
(* Properties of the transient-user route (SpecEph).                       *)
(***************************************************************************)
\* C12: a call of POST /rate/ returns recommendations and leaves the rating
\* corpus and the shared trained model as they were before it.
C12_EphemeralLeavesState ==
    [][resp'.op = "pkg_rate" =>
          /\ pkg_model' = pkg_model
          /\ model' = model
          /\ ratings' = ratings]_vars

\* A call answered with recommendations for a transient rating set.
C12_Witness ==
    /\ resp.op = "pkg_rate"
    /\ resp.status = 200
    /\ Len(resp.body) > 0
    /\ Cardinality(DOMAIN resp.args[2]) > 1

\* C15: no movie whose id is a key of the transient rating set is among the
\* recommendations POST /rate/ returns.
C15_RatedMoviesSkipped ==
    (resp.op = "pkg_rate" /\ resp.status = 200) =>
        \A k \in DOMAIN resp.body :
            PyStr(resp.body[k].movieId) \notin DOMAIN resp.args[2]


(***************************************************************************)
(* Properties of the retrained model (Spec).                               *)
(***************************************************************************)
\* C13: the clipping range of the served model stays within the rating
\* scale 1..5, and so does every score it predicts for a (user, item) pair
\* of its trainset.
C13_PredictionsWithinScale ==
    model.fitted =>
        /\ RatingScaleLo <= model.lo
        /\ model.hi <= RatingScaleHi
        /\ \A i \in DOMAIN model.trainset :
              predict(model, model.trainset[i].userId, model.trainset[i].movieId)
                  \in RatingScaleLo..RatingScaleHi

\* C14: once retrain has fitted the new model, every user and every item
\* with a rating in the corpus of the time of the call is in its trainset.
C14_RetrainKnowsAll ==
    \A w \in Workers :
        (pc[w] = "rt_test" /\ model.fitted) =>
            /\ UsersOf(local[w].called) \subseteq UsersOf(model.trainset)
            /\ ItemsOf(local[w].called) \subseteq ItemsOf(model.trainset)

====
